---- MODULE Spec2Model ----
(***************************************************************************)
(* CelestiGuard counting game: the token parser, the on_message sequence   *)
(* validator, the history reconciler and the admin surfaces (slash         *)
(* commands and dashboard form), over the SQLite-backed counting state of  *)
(* one guild.  The bot and the dashboard run on one asyncio event loop:    *)
(* a coroutine runs without interruption between two awaits, and any other *)
(* coroutine may run at an await.  Every action below is one such          *)
(* uninterrupted stretch of code.                                          *)
(*                                                                         *)
(* Encodings: a text is a sequence of one-character strings; Python's None *)
(* is NoneId (0) for snowflake ids, which are positive, and the empty      *)
(* sequence for an Optional[int] (<<v>> is the value v).                   *)
(***************************************************************************)
EXTENDS Integers, Sequences, FiniteSets, TLC

\* ------------------------------------------------------------------ bounds
MaxMsgs == 2
MaxAdminOps == 1
MaxHist == 4
MaxMilestone == 20100
MaxTextLen == 4
MaxLiveMsgs == 3

\* ------------------------------------------------------- program constants
EXTREME_MAX_EXPONENT == 18
MILESTONES == {69, 420, 777, 1000, 1337}
MaxChunkLen == 32
NoneId == 0
None == <<>>

\* ------------------------------------------------------------ text helpers
Digits == <<"0", "1", "2", "3", "4", "5", "6", "7", "8", "9">>
AsciiDigits == {Digits[i] : i \in 1..10}

\* Non-ASCII decimal digits, named by code point (U+0663 is ARABIC-INDIC
\* DIGIT THREE, U+FF11 is FULLWIDTH DIGIT ONE), with their digit values.
UnicodeDigits == {"U0663", "UFF11"}
UnicodeDigitValue(ch) == IF ch = "U0663" THEN "3" ELSE "1"

Letters == {"a", "b", "g", "o", "x", "e", "E"}
Whitespace == {" "}

DigitVal(ch) == CHOOSE d \in 0..9 : Digits[d + 1] = ch

RECURSIVE Filter(_, _)
Filter(s, drop) ==
    IF s = <<>> THEN <<>>
    ELSE IF Head(s) \in drop THEN Filter(Tail(s), drop)
    ELSE <<Head(s)>> \o Filter(Tail(s), drop)

RECURSIVE LStrip(_, _)
LStrip(s, chars) ==
    IF s # <<>> /\ Head(s) \in chars THEN LStrip(Tail(s), chars) ELSE s

RECURSIVE RStrip(_, _)
RStrip(s, chars) ==
    IF s # <<>> /\ s[Len(s)] \in chars THEN RStrip(SubSeq(s, 1, Len(s) - 1), chars) ELSE s

Strip(s) == RStrip(LStrip(s, Whitespace), Whitespace)

IsDigitStr(s) == s # <<>> /\ \A i \in 1..Len(s) : s[i] \in AsciiDigits

RECURSIVE DigitsToInt(_)
DigitsToInt(s) ==
    IF s = <<>> THEN 0
    ELSE 10 * DigitsToInt(SubSeq(s, 1, Len(s) - 1)) + DigitVal(s[Len(s)])

RECURSIVE Pow10(_)
Pow10(k) == IF k = 0 THEN 1 ELSE 10 * Pow10(k - 1)

Abs(x) == IF x < 0 THEN -x ELSE x
Max(a, b) == IF a >= b THEN a ELSE b

IndexOf(s, chars) ==
    IF \E i \in 1..Len(s) : s[i] \in chars
    THEN CHOOSE i \in 1..Len(s) : s[i] \in chars /\ \A j \in 1..(i - 1) : s[j] \notin chars
    ELSE 0

\* ------------------------------------------------------------ token parser
_normalize_unicode_digits(s) ==
    [i \in 1..Len(s) |-> IF s[i] \in UnicodeDigits THEN UnicodeDigitValue(s[i]) ELSE s[i]]

\* int(x) of Python for a text of sign and digits: <<v>>, or None on ValueError
PyInt(s) ==
    LET body == IF s # <<>> /\ s[1] \in {"-", "+"} THEN Tail(s) ELSE s
    IN  IF IsDigitStr(body)
        THEN IF s[1] = "-" THEN <<0 - DigitsToInt(body)>> ELSE <<DigitsToInt(body)>>
        ELSE None

\* Decimal(clean), then the integrality test and the exponent guard of lines
\* 31-43.  A finite Decimal literal is [sign] (digits [. [digits]] | . digits)
\* [e [sign] digits]; anything else raises InvalidOperation.  The value is
\* m * 10^shift, m the digits of the mantissa and shift the exponent less the
\* number of fraction digits.

\* DecimalInt with the guard on exp instead of abs(exp)
DecimalInt_GuardsPositiveOnly(neg, m, shift, hasExp, e) ==
    IF ~(m = 0 \/ shift >= 0 \/ m % Pow10(0 - shift) = 0) THEN None
    ELSE IF hasExp /\ e > EXTREME_MAX_EXPONENT THEN None
    ELSE IF m = 0 THEN <<0>>
    ELSE IF shift >= 0
    THEN <<(IF neg THEN -1 ELSE 1) * m * Pow10(shift)>>
    ELSE <<(IF neg THEN -1 ELSE 1) * (m \div Pow10(0 - shift))>>

\* lines 32-40: d == d.to_integral_value(), the guard on abs(exp), int(d)
DecimalInt(neg, m, shift, hasExp, e) ==
    IF ~(m = 0 \/ shift >= 0 \/ m % Pow10(0 - shift) = 0) THEN None
    ELSE IF hasExp /\ Abs(e) > EXTREME_MAX_EXPONENT THEN None
    ELSE IF m = 0 THEN <<0>>
    ELSE IF shift >= 0
    THEN <<(IF neg THEN -1 ELSE 1) * m * Pow10(shift)>>
    ELSE <<(IF neg THEN -1 ELSE 1) * (m \div Pow10(0 - shift))>>

\* line 31: the literal is well formed, or InvalidOperation (line 42)
DecimalCheck(neg, ip, fp, hasExp, expVal) ==
    IF ~(/\ ip \o fp # <<>>
         /\ \A i \in 1..Len(ip) : ip[i] \in AsciiDigits
         /\ \A i \in 1..Len(fp) : fp[i] \in AsciiDigits
         /\ (hasExp => expVal # None))
    THEN None
    ELSE DecimalInt(neg, DigitsToInt(ip \o fp),
                    (IF hasExp THEN expVal[1] ELSE 0) - Len(fp),
                    hasExp, IF hasExp THEN expVal[1] ELSE 0)

\* the mantissa split at its decimal point
DecimalMantissa(neg, mant, dPos, hasExp, expVal) ==
    DecimalCheck(neg,
                 IF dPos = 0 THEN mant ELSE SubSeq(mant, 1, dPos - 1),
                 IF dPos = 0 THEN <<>> ELSE SubSeq(mant, dPos + 1, Len(mant)),
                 hasExp, expVal)

\* the unsigned literal split at its exponent marker
DecimalExponent(neg, uns, ePos) ==
    DecimalMantissa(neg,
                    IF ePos = 0 THEN uns ELSE SubSeq(uns, 1, ePos - 1),
                    IndexOf(IF ePos = 0 THEN uns ELSE SubSeq(uns, 1, ePos - 1), {"."}),
                    ePos # 0,
                    IF ePos = 0 THEN None ELSE PyInt(SubSeq(uns, ePos + 1, Len(uns))))

DecimalUnsigned(neg, uns) == DecimalExponent(neg, uns, IndexOf(uns, {"e", "E"}))

DecimalPath(clean) ==
    DecimalUnsigned(clean # <<>> /\ clean[1] = "-",
                    IF clean # <<>> /\ clean[1] \in {"-", "+"} THEN Tail(clean) ELSE clean)

_try_parse_numeric_token(tok0) ==
    LET tok == _normalize_unicode_digits(Strip(tok0))
        clean == Filter(tok, {",", "_", " "})
    IN  IF tok = <<>> \/ tok[1] = "+" THEN None
        ELSE IF \E i \in 1..Len(clean) : clean[i] \in {"e", "E", "."}
        THEN DecimalPath(clean)
        ELSE IF IsDigitStr(LStrip(clean, {"-"}))
        THEN PyInt(clean)
        ELSE None

RECURSIVE IntToDigits(_)
\* str(n) for n >= 0
IntToDigits(n) ==
    IF n < 10 THEN <<Digits[n + 1]>>
    ELSE Append(IntToDigits(n \div 10), Digits[(n % 10) + 1])

\* _is_power10_milestone asking for 4 digits instead of 5
_is_power10_milestone_FourDigits(n) ==
    IF n <= 0 THEN FALSE
    ELSE LET s == IntToDigits(n)
         IN  /\ s[1] \in (AsciiDigits \ {"0"})
             /\ {s[i] : i \in 2..Len(s)} = {"0"}
             /\ Len(s) >= 4

_is_power10_milestone(n) ==
    IF n <= 0 THEN FALSE
    ELSE LET s == IntToDigits(n)
         IN  /\ s[1] \in (AsciiDigits \ {"0"})
             /\ {s[i] : i \in 2..Len(s)} = {"0"}
             /\ Len(s) >= 5

is_milestone(n) == n \in MILESTONES \/ _is_power10_milestone(n)

\* characters kept by re.split(r"[^\w\-\+\.,\s]", text): every other one separates
TokenChars == AsciiDigits \cup UnicodeDigits \cup Letters \cup {"_", "-", "+", ".", ",", " "}

RECURSIVE SplitWs(_, _)
\* " ".join(tokens).split(): the whitespace-delimited chunks of s, cur being
\* the chunk under construction
SplitWs(s, cur) ==
    IF s = <<>> THEN (IF cur = <<>> THEN <<>> ELSE <<cur>>)
    ELSE IF Head(s) \in Whitespace
    THEN (IF cur = <<>> THEN <<>> ELSE <<cur>>) \o SplitWs(Tail(s), <<>>)
    ELSE SplitWs(Tail(s), Append(cur, Head(s)))

RECURSIVE FirstParsing(_)
FirstParsing(chunks) ==
    IF chunks = <<>> THEN None
    ELSE IF Len(Head(chunks)) > MaxChunkLen THEN FirstParsing(Tail(chunks))
    ELSE IF _try_parse_numeric_token(Head(chunks)) # None
    THEN _try_parse_numeric_token(Head(chunks))
    ELSE FirstParsing(Tail(chunks))

\* parse_count_message scanning the chunks whether extreme mode is on or not
parse_count_message_AlwaysScans(content, extreme) ==
    LET text == Strip(content)
        val == _try_parse_numeric_token(text)
        spaced == [i \in 1..Len(text) |-> IF text[i] \in TokenChars THEN text[i] ELSE " "]
    IN  IF val # None THEN val
        ELSE FirstParsing(SplitWs(spaced, <<>>))

parse_count_message(content, extreme) ==
    LET text == Strip(content)
        val == _try_parse_numeric_token(text)
        spaced == [i \in 1..Len(text) |-> IF text[i] \in TokenChars THEN text[i] ELSE " "]
    IN  IF ~extreme THEN val
        ELSE IF val # None THEN val
        ELSE FirstParsing(SplitWs(spaced, <<>>))

\* ------------------------------------------------------- history reconciler
DefaultMaxMessages == 5000

\* channel.history without its limit
Take_NoLimit(s, k) == s

Take(s, k) == IF Len(s) <= k THEN s ELSE SubSeq(s, 1, k)

RECURSIVE Scan_FollowsRun(_, _, _, _, _)
\* Scan moving the result along the run: every value that matches the cursor
\* becomes the result, so the oldest value of the run is returned
Scan_FollowsRun(msgs, extreme, last_number, last_user, expected) ==
    IF msgs = <<>> THEN <<last_number, last_user>>
    ELSE LET msg == Head(msgs)
             val == parse_count_message(msg.text, extreme)
         IN  IF msg.bot THEN Scan_FollowsRun(Tail(msgs), extreme, last_number, last_user, expected)
             ELSE IF val = None
             THEN Scan_FollowsRun(Tail(msgs), extreme, last_number, last_user, expected)
             ELSE IF expected = None
             THEN Scan_FollowsRun(Tail(msgs), extreme, val[1], msg.author, <<val[1] - 1>>)
             ELSE IF val[1] = expected[1]
             THEN Scan_FollowsRun(Tail(msgs), extreme, val[1], msg.author, <<expected[1] - 1>>)
             ELSE <<last_number, last_user>>

RECURSIVE Scan_RepeatPosterRule(_, _, _, _, _)
\* Scan applying a repeat-poster rule: a value of the run posted by the poster
\* of the seed voids the run, as a live rejection would have reset the count
Scan_RepeatPosterRule(msgs, extreme, last_number, last_user, expected) ==
    IF msgs = <<>> THEN <<last_number, last_user>>
    ELSE LET msg == Head(msgs)
             val == parse_count_message(msg.text, extreme)
         IN  IF msg.bot
             THEN Scan_RepeatPosterRule(Tail(msgs), extreme, last_number, last_user, expected)
             ELSE IF val = None
             THEN Scan_RepeatPosterRule(Tail(msgs), extreme, last_number, last_user, expected)
             ELSE IF expected = None
             THEN Scan_RepeatPosterRule(Tail(msgs), extreme, val[1], msg.author, <<val[1] - 1>>)
             ELSE IF val[1] = expected[1]
             THEN (IF msg.author = last_user THEN <<0, NoneId>>
                   ELSE Scan_RepeatPosterRule(Tail(msgs), extreme, last_number, last_user,
                                              <<expected[1] - 1>>))
             ELSE <<last_number, last_user>>

RECURSIVE Scan(_, _, _, _, _)
\* the loop body of backfill_from_history over the messages still to visit;
\* expected is None until the first parseable value seeds the result
Scan(msgs, extreme, last_number, last_user, expected) ==
    IF msgs = <<>> THEN <<last_number, last_user>>
    ELSE LET msg == Head(msgs)
             val == parse_count_message(msg.text, extreme)
         IN  IF msg.bot THEN Scan(Tail(msgs), extreme, last_number, last_user, expected)
             ELSE IF val = None THEN Scan(Tail(msgs), extreme, last_number, last_user, expected)
             ELSE IF expected = None
             THEN Scan(Tail(msgs), extreme, val[1], msg.author, <<val[1] - 1>>)
             ELSE IF val[1] = expected[1]
             THEN Scan(Tail(msgs), extreme, last_number, last_user, <<expected[1] - 1>>)
             ELSE <<last_number, last_user>>

RECURSIVE Examined(_, _, _)
\* lines 80-94: how many messages the loop takes from the iterator, the one it
\* breaks on included
Examined(msgs, extreme, expected) ==
    IF msgs = <<>> THEN 0
    ELSE LET msg == Head(msgs)
             val == parse_count_message(msg.text, extreme)
         IN  IF msg.bot \/ val = None THEN 1 + Examined(Tail(msgs), extreme, expected)
             ELSE IF expected = None
             THEN 1 + Examined(Tail(msgs), extreme, <<val[1] - 1>>)
             ELSE IF val[1] = expected[1]
             THEN 1 + Examined(Tail(msgs), extreme, <<expected[1] - 1>>)
             ELSE 1

\* backfill_from_history without the author.bot test of lines 81-82
backfill_from_history_CountsBots(hist, extreme, max_messages) ==
    LET all == [i \in 1..Len(hist) |-> [hist[i] EXCEPT !.bot = FALSE]]
        r == Scan(Take(all, max_messages), extreme, 0, NoneId, None)
    IN  <<Max(0, r[1]), r[2]>>

\* backfill_from_history returning last_number as scanned, without max(0, .)
backfill_from_history_NoClamp(hist, extreme, max_messages) ==
    Scan(Take(hist, max_messages), extreme, 0, NoneId, None)

\* backfill_from_history reading the channel with oldest_first=True
backfill_from_history_OldestFirst(hist, extreme, max_messages) ==
    LET rev == [i \in 1..Len(hist) |-> hist[Len(hist) - i + 1]]
        r == Scan(Take(rev, max_messages), extreme, 0, NoneId, None)
    IN  <<Max(0, r[1]), r[2]>>

\* hist is the channel's history, newest first
backfill_from_history(hist, extreme, max_messages) ==
    LET r == Scan(Take(hist, max_messages), extreme, 0, NoneId, None)
    IN  <<Max(0, r[1]), r[2]>>

\* ------------------------------------------------------------------- inputs
Users == {1, 2}
BotUser == 9
\* The guild has two text channels.  Admins only ever pick CountChannel as the
\* counting channel, so the content of OtherChannel is never read and history
\* holds CountChannel's messages only.
CountChannel == 1
OtherChannel == 2
Channels == {CountChannel, OtherChannel}
Handlers == {1, 2}

Texts ==
    { <<"1">>, <<"6", "8">>, <<"6", "9">>, <<"x">>, <<"g", "o", " ", "1">>, <<"-", "1">> }
\* the text of a message whose text the program never looks at
AnyText == <<"x">>
SetCountArgs == {-1, 67}

\* ---------------------------------------------------------------- the store
VARIABLES
    row,        \* whether the guild's counting_state row exists
    st,         \* the row's columns (the defaults while it does not exist)
    settings,   \* guild_settings: "unset", "true" or "false" per key
    tally,      \* counting_user_counts.cnt per user (0: no row)
    history,    \* the messages CountChannel holds, newest first
    msgCount,   \* messages received so far
    adminOps,   \* admin operations started so far
    h,          \* per on_message task in flight: its position and locals
    last,       \* the on_message task that returned last, as it returned
    sync,       \* the synccount command's position and locals
    setch,      \* the setcountingchannel command's position and locals
    dash,       \* the dashboard's update_counting request
    call        \* a function called on its own: its arguments and what it returned

vars ==
    <<row, st, settings, tally, history, msgCount, adminOps, h, last, sync, setch, dash, call>>

DefaultState ==
    [channel_id |-> NoneId, last_number |-> 0, last_user_id |-> NoneId,
     high_score |-> 0, high_scorer_id |-> NoneId]

\* set_state writing the named columns whether the row exists or not
set_state_WritesWithoutRow(r, s, kwargs) == kwargs @@ s

\* UPDATE counting_state SET ... WHERE guild_id=?: the row after the update,
\* which changes nothing when no row matches
set_state(r, s, kwargs) ==
    IF r THEN kwargs @@ s ELSE s

\* get_state without the INSERT of lines 130-134
get_state_NoInsert(r, s) ==
    [row |-> r, st |-> IF r THEN s ELSE DefaultState]

\* SELECT, and INSERT of the defaults when no row matches: whether the row
\* exists after the call, and its columns, which are also the dict returned
get_state(r, s) ==
    [row |-> TRUE, st |-> IF r THEN s ELSE DefaultState]

\* bump_user_count with the row inserted at 1 instead of 0 before the increment
bump_user_count_InsertsOne(t, user) == [t EXCEPT ![user] = IF @ = 0 THEN 2 ELSE @ + 1]

\* cnt after bump_user_count: insert with 0 if missing, then cnt = cnt + 1
bump_user_count(t, user) == [t EXCEPT ![user] = @ + 1]

get_extreme_mode == settings.extreme_mode = "true"
get_delete_wrong == settings.delete_wrong \in {"true", "unset"}

IdleHandler ==
    [pc |-> "idle", id |-> 0, author |-> NoneId, channel |-> NoneId, n |-> None, extreme |-> FALSE,
     snap |-> DefaultState, outcome |-> "None", fx |-> {}, failed |-> FALSE]

IdleCmd ==
    [pc |-> "idle", last_num |-> 0, last_user |-> NoneId, max_messages |-> DefaultMaxMessages]

NoCall ==
    [fn |-> "none", text |-> <<>>, extreme |-> FALSE, n |-> 0, arg |-> <<>>, done |-> FALSE,
     out |-> None]

\* The store is a SQLite file that outlives the process, and Counting.__init__
\* only runs CREATE TABLE IF NOT EXISTS on it: the bot starts on what earlier
\* runs left.  StoredAtStart lists a fresh file and the stores an admin leaves
\* by picking the channel (update_counting or setcountingchannel in an empty
\* channel), setting the count to 67 (setcount) and writing the two settings
\* (extrememode, countconfig).
StoredRows ==
    { [row |-> FALSE, st |-> DefaultState],
      [row |-> TRUE, st |-> [DefaultState EXCEPT !.channel_id = CountChannel]],
      [row |-> TRUE, st |-> [DefaultState EXCEPT !.channel_id = CountChannel,
                                                  !.last_number = 67]] }
StoredSettings ==
    { [extreme_mode |-> e, delete_wrong |-> d] : e \in {"unset", "true"}, d \in {"unset", "false"} }

Init ==
    /\ \E s \in StoredRows : row = s.row /\ st = s.st
    /\ settings \in StoredSettings
    /\ tally = [u \in Users |-> 0]
    /\ history = <<>>
    /\ msgCount = 0
    /\ adminOps = 0
    /\ h = [k \in Handlers |-> IdleHandler]
    /\ last = IdleHandler
    /\ sync = IdleCmd
    /\ setch = IdleCmd
    /\ dash = IdleCmd
    /\ call = NoCall

\* --------------------------------------------------------------- on_message
\* Every text from a user in CountChannel; a bot's message and a message in
\* OtherChannel are dropped before their text is parsed.
Messages ==
    { [author |-> u, bot |-> FALSE, channel |-> CountChannel, text |-> t] :
          u \in Users, t \in Texts }
    \cup { [author |-> u, bot |-> FALSE, channel |-> OtherChannel, text |-> AnyText] : u \in Users }
    \cup { [author |-> BotUser, bot |-> TRUE, channel |-> c, text |-> AnyText] : c \in Channels }

\* on_message without the author.bot test of line 225
ActsOn_NoBotCheck(m, s) == s.channel_id # NoneId /\ m.channel = s.channel_id

\* lines 225-232: the handler goes on only for a non-bot author in the
\* configured counting channel
ActsOn(m, s) == ~m.bot /\ s.channel_id # NoneId /\ m.channel = s.channel_id

\* Validate expecting last_number itself instead of last_number + 1
Validate_ExpectsLast(s, author, n, extreme) ==
    LET expected == s.last_number
        same_user == s.last_user_id = author
    IN  IF n = None THEN "Ignored"
        ELSE IF n[1] # expected THEN "RejectedWrongValue"
        ELSE IF same_user /\ ~(extreme /\ is_milestone(n[1])) THEN "RejectedRepeatPoster"
        ELSE "Accepted"

\* Validate without the repeat-poster rule of lines 251-252
Validate_NoRepeatRule(s, author, n, extreme) ==
    LET expected == s.last_number + 1
    IN  IF n = None THEN "Ignored"
        ELSE IF n[1] # expected THEN "RejectedWrongValue"
        ELSE "Accepted"

\* Validate without the milestone exception of line 251
Validate_NoMilestoneException(s, author, n, extreme) ==
    LET expected == s.last_number + 1
        same_user == s.last_user_id = author
    IN  IF n = None THEN "Ignored"
        ELSE IF n[1] # expected THEN "RejectedWrongValue"
        ELSE IF same_user THEN "RejectedRepeatPoster"
        ELSE "Accepted"

\* Validate treating a message that is not a number as a wrong number
Validate_NonNumberIsWrong(s, author, n, extreme) ==
    LET expected == s.last_number + 1
        same_user == s.last_user_id = author
    IN  IF n = None THEN "RejectedWrongValue"
        ELSE IF n[1] # expected THEN "RejectedWrongValue"
        ELSE IF same_user /\ ~(extreme /\ is_milestone(n[1])) THEN "RejectedRepeatPoster"
        ELSE "Accepted"

\* Validate looking at the poster and the milestone exception before the value
Validate_PosterBeforeValue(s, author, n, extreme) ==
    LET expected == s.last_number + 1
        same_user == s.last_user_id = author
    IN  IF n = None THEN "Ignored"
        ELSE IF same_user /\ extreme /\ is_milestone(n[1]) THEN "Accepted"
        ELSE IF same_user THEN "RejectedRepeatPoster"
        ELSE IF n[1] # expected THEN "RejectedWrongValue"
        ELSE "Accepted"

\* lines 236-252: the outcome for parsed value n read against snapshot s
Validate(s, author, n, extreme) ==
    LET expected == s.last_number + 1
        same_user == s.last_user_id = author
    IN  IF n = None THEN "Ignored"
        ELSE IF n[1] # expected THEN "RejectedWrongValue"
        ELSE IF same_user /\ ~(extreme /\ is_milestone(n[1])) THEN "RejectedRepeatPoster"
        ELSE "Accepted"

\* the reset of line 267 without last_user_id=None
PersistReset_KeepsPoster(r, s) == set_state(r, s, [last_number |-> 0])

\* line 267
PersistReset(r, s) == set_state(r, s, [last_number |-> 0, last_user_id |-> NoneId])

\* PersistAccept leaving the record of the snapshot as it is
PersistAccept_KeepsRecord(r, s, snap, author, n) ==
    set_state(r, s, [last_number |-> n, last_user_id |-> author,
                     high_score |-> snap.high_score, high_scorer_id |-> snap.high_scorer_id])

\* lines 271-275 and 286: hs and hi come from the handler's own snapshot
PersistAccept(r, s, snap, author, n) ==
    LET hs == IF n > snap.high_score THEN n ELSE snap.high_score
        hi == IF n > snap.high_score THEN author ELSE snap.high_scorer_id
    IN  set_state(r, s, [last_number |-> n, last_user_id |-> author,
                         high_score |-> hs, high_scorer_id |-> hi])

\* lines 273-284: the reaction added to an accepted message, the trophy when
\* n beats the high score of the handler's snapshot and the check mark otherwise
Marker(snap, n) == IF n > snap.high_score THEN "react_trophy" ELSE "react_check"

\* a side effect outside any try block: its failure ends the handler
Swallowed_Propagates(ok) == ok

\* the "try: await ... except Exception: pass" around every side effect: the
\* handler goes on whether the awaited call succeeded (ok) or raised
Swallowed(ok) == TRUE

RemoveId(hist, id) == Filter(hist, {m \in {hist[i] : i \in 1..Len(hist)} : m.id = id})

Effect(k, name, ok) ==
    [h[k] EXCEPT !.fx = @ \cup {name}, !.failed = @ \/ ~ok]

\* discord.py runs every dispatched event in a task of its own; the tasks are
\* anonymous, so a new message takes the first free slot
Free(k) == h[k].pc = "idle"

\* task k returns: its slot is free again and last shows how it ended
Return(k, r) ==
    /\ h' = [h EXCEPT ![k] = IdleHandler]
    /\ last' = [r EXCEPT !.pc = "done"]

\* lines 223-245 up to the first await.  The message lands in its channel's
\* history as it is dispatched.  (The bot's own rejection notices are left out
\* of history: they are bot messages, which neither on_message nor the
\* reconciler looks at.)
on_message(k, m, cap) ==
    /\ Free(k)
    /\ \A j \in Handlers : j < k => ~Free(j)
    /\ msgCount < cap
    /\ msgCount' = msgCount + 1
    /\ history' = IF m.channel = CountChannel
                  THEN <<[id |-> msgCount + 1, author |-> m.author, bot |-> m.bot,
                          text |-> m.text]>> \o history
                  ELSE history
    /\ row' = IF m.bot THEN row ELSE get_state(row, st).row
    /\ LET extreme == get_extreme_mode
           dw == get_delete_wrong
           n == parse_count_message(m.text, extreme)
           out == Validate(st, m.author, n, extreme)
           base == [IdleHandler EXCEPT !.id = msgCount + 1, !.author = m.author,
                                       !.channel = m.channel]
           rec == [base EXCEPT !.n = n, !.extreme = extreme, !.snap = st, !.outcome = out,
                               !.pc = IF out = "Ignored"
                                      THEN (IF dw THEN "ign_delete" ELSE "done")
                                      ELSE IF out = "Accepted" THEN "acc_react"
                                      ELSE IF dw THEN "rej_delete" ELSE "rej_send"]
       IN  IF ~ActsOn(m, st) THEN Return(k, [base EXCEPT !.outcome = "NotHandled"])
           ELSE IF rec.pc = "done" THEN Return(k, rec)
           ELSE h' = [h EXCEPT ![k] = rec] /\ last' = last
    /\ UNCHANGED <<call, st, settings, tally, adminOps, sync, setch, dash>>

OnMessage(k, m) == on_message(k, m, MaxMsgs)

\* lines 240-245: await message.delete() for a message that is not a number
DeleteIgnored(k, ok) ==
    /\ h[k].pc = "ign_delete"
    /\ Return(k, Effect(k, "delete", ok))
    /\ history' = IF ok THEN RemoveId(history, h[k].id) ELSE history
    /\ UNCHANGED <<call, row, st, settings, tally, msgCount, adminOps, sync, setch, dash>>

\* lines 255-259: await message.delete() for a rejected number
DeleteWrong(k, ok) ==
    /\ h[k].pc = "rej_delete"
    /\ IF Swallowed(ok)
       THEN h' = [h EXCEPT ![k] = [Effect(k, "delete", ok) EXCEPT !.pc = "rej_send"]] /\ last' = last
       ELSE Return(k, Effect(k, "delete", ok))
    /\ history' = IF ok THEN RemoveId(history, h[k].id) ELSE history
    /\ UNCHANGED <<call, row, st, settings, tally, msgCount, adminOps, sync, setch, dash>>

\* lines 260-263: await message.channel.send(...); when it raises, the except
\* clause leads straight to set_state (line 267)
SendNotice(k, ok) ==
    /\ h[k].pc = "rej_send"
    /\ IF ok
       THEN h' = [h EXCEPT ![k] = [Effect(k, "send", ok) EXCEPT !.pc = "rej_note"]] /\ last' = last
       ELSE Return(k, Effect(k, "send", ok))
    /\ st' = IF ~ok /\ Swallowed(ok) THEN PersistReset(row, st) ELSE st
    /\ UNCHANGED <<call, row, settings, tally, history, msgCount, adminOps, sync, setch, dash>>

\* lines 264-268: await note.delete(delay=6), then set_state
DeleteNotice(k, ok) ==
    /\ h[k].pc = "rej_note"
    /\ Return(k, Effect(k, "note_delete", ok))
    /\ st' = IF Swallowed(ok) THEN PersistReset(row, st) ELSE st
    /\ UNCHANGED <<call, row, settings, tally, history, msgCount, adminOps, sync, setch, dash>>

\* lines 271-287: await message.add_reaction(...), then set_state and
\* bump_user_count
AddReaction(k, ok) ==
    /\ h[k].pc = "acc_react"
    /\ Return(k, Effect(k, Marker(h[k].snap, h[k].n[1]), ok))
    /\ st' = IF Swallowed(ok)
             THEN PersistAccept(row, st, h[k].snap, h[k].author, h[k].n[1])
             ELSE st
    /\ tally' = IF Swallowed(ok) THEN bump_user_count(tally, h[k].author) ELSE tally
    /\ UNCHANGED <<call, row, settings, history, msgCount, adminOps, sync, setch, dash>>

\* ----------------------------------------------------------- slash commands
AdminStep == adminOps < MaxAdminOps /\ adminOps' = adminOps + 1

\* counting.py lines 146-157
setcount(value) ==
    /\ AdminStep
    /\ st' = set_state(row, st, [last_number |-> Max(0, value), last_user_id |-> NoneId])
    /\ UNCHANGED <<call, row, settings, tally, history, msgCount, h, last, sync, setch, dash>>

\* resetcount clearing the record as well as the count
resetcount_ClearsRecord ==
    /\ AdminStep
    /\ st' = set_state(row, st, [last_number |-> 0, last_user_id |-> NoneId,
                                 high_score |-> 0, high_scorer_id |-> NoneId])
    /\ UNCHANGED <<call, row, settings, tally, history, msgCount, h, last, sync, setch, dash>>

\* counting.py lines 161-168
resetcount ==
    /\ AdminStep
    /\ st' = set_state(row, st, [last_number |-> 0, last_user_id |-> NoneId])
    /\ UNCHANGED <<call, row, settings, tally, history, msgCount, h, last, sync, setch, dash>>

\* counting.py lines 172-182
extrememode(value) ==
    /\ AdminStep
    /\ settings' = [settings EXCEPT !.extreme_mode = IF value THEN "true" ELSE "false"]
    /\ UNCHANGED <<call, row, st, tally, history, msgCount, h, last, sync, setch, dash>>

\* counting.py lines 186-193
countconfig(delete_wrong) ==
    /\ AdminStep
    /\ settings' = [settings EXCEPT !.delete_wrong = IF delete_wrong THEN "true" ELSE "false"]
    /\ UNCHANGED <<call, row, st, tally, history, msgCount, h, last, sync, setch, dash>>

\* counting.py lines 124-142: reads only, but get_state inserts a missing row
stats ==
    /\ row' = get_state(row, st).row
    /\ UNCHANGED <<call, st, settings, tally, history, msgCount, adminOps, h, last, sync, setch, dash>>

\* counting.py lines 197-216: get_state, the channel check, the deferral, the
\* setting and the history fetch.  The stretch before the deferral only reads
\* (and inserts a missing row, as stats does), so the command is taken up where
\* backfill_from_history has its answer and is about to resume.
SyncFetch ==
    /\ sync.pc = "idle"
    /\ AdminStep
    /\ row' = get_state(row, st).row
    /\ sync' = IF st.channel_id = NoneId THEN sync
               ELSE LET r == backfill_from_history(history, get_extreme_mode, DefaultMaxMessages)
                    IN  [sync EXCEPT !.pc = "fetched",
                                     !.last_num = r[1], !.last_user = r[2]]
    /\ UNCHANGED <<call, st, settings, tally, history, msgCount, h, last, setch, dash>>

\* SyncWrite giving way to a count that live messages carried past its scan
SyncWrite_KeepsLiveCount ==
    /\ sync.pc = "fetched"
    /\ st' = IF st.last_number > sync.last_num THEN st
             ELSE set_state(row, st, [last_number |-> sync.last_num,
                                      last_user_id |-> sync.last_user])
    /\ sync' = IdleCmd
    /\ UNCHANGED <<call, row, settings, tally, history, msgCount, adminOps, h, last, setch, dash>>

\* counting.py lines 217-218
SyncWrite ==
    /\ sync.pc = "fetched"
    /\ st' = set_state(row, st, [last_number |-> sync.last_num, last_user_id |-> sync.last_user])
    /\ sync' = IdleCmd
    /\ UNCHANGED <<call, row, settings, tally, history, msgCount, adminOps, h, last, setch, dash>>

\* counting.py lines 107-116: the deferral (nothing is read before it), then
\* get_state, the setting and the history fetch
SetChannelFetch(channel) ==
    /\ setch.pc = "idle"
    /\ AdminStep
    /\ row' = get_state(row, st).row
    /\ LET r == backfill_from_history(history, get_extreme_mode, DefaultMaxMessages)
       IN  setch' = [setch EXCEPT !.pc = "fetched",
                                  !.last_num = r[1], !.last_user = r[2]]
    /\ UNCHANGED <<call, st, settings, tally, history, msgCount, h, last, sync, dash>>

\* counting.py lines 117-121
SetChannelWrite(channel) ==
    /\ setch.pc = "fetched"
    /\ st' = set_state(row, st, [channel_id |-> channel, last_number |-> setch.last_num,
                                 last_user_id |-> setch.last_user])
    /\ setch' = IdleCmd
    /\ UNCHANGED <<call, row, settings, tally, history, msgCount, adminOps, h, last, sync, dash>>

\* ----------------------------------------------------------------- dashboard
\* webapp.py lines 774-786: reads only, but get_state inserts a missing row
guild_view ==
    /\ row' = get_state(row, st).row
    /\ UNCHANGED <<call, st, settings, tally, history, msgCount, adminOps, h, last, sync, setch, dash>>

\* webapp.py lines 913-923: the form writes both settings
update_settings(extreme_mode, delete_wrong) ==
    /\ AdminStep
    /\ settings' = [extreme_mode |-> IF extreme_mode THEN "true" ELSE "false",
                    delete_wrong |-> IF delete_wrong THEN "true" ELSE "false"]
    /\ UNCHANGED <<call, row, st, tally, history, msgCount, h, last, sync, setch, dash>>

\* webapp.py lines 936-941: the three writes of the form, none of them
\* preceded by get_state.  channel_id is NoneId, set_count is None and reset is
\* FALSE for a field the form leaves out.
FormWrites(r, s, channel_id, set_count, reset) ==
    LET s1 == IF channel_id # NoneId THEN set_state(r, s, [channel_id |-> channel_id]) ELSE s
        s2 == IF set_count # None
              THEN set_state(r, s1, [last_number |-> Max(0, set_count[1]), last_user_id |-> NoneId])
              ELSE s1
    IN  IF reset THEN set_state(r, s2, [last_number |-> 0, last_user_id |-> NoneId]) ELSE s2

\* webapp.py lines 926-950: up to "await backfill_from_history"
update_counting(channel_id, set_count, reset, synccount) ==
    /\ dash.pc = "idle"
    /\ AdminStep
    /\ st' = FormWrites(row, st, channel_id, set_count, reset)
    /\ row' = IF synccount THEN get_state(row, st').row ELSE row
    /\ dash' = IF synccount /\ st'.channel_id # NoneId
               THEN LET r == backfill_from_history(history, get_extreme_mode,
                                                   DefaultMaxMessages)
                    IN  [dash EXCEPT !.pc = "fetched",
                                     !.last_num = r[1], !.last_user = r[2]]
               ELSE dash
    /\ UNCHANGED <<call, settings, tally, history, msgCount, h, last, sync, setch>>

\* webapp.py lines 951-952
UpdateCountingWrite ==
    /\ dash.pc = "fetched"
    /\ st' = set_state(row, st, [last_number |-> dash.last_num, last_user_id |-> dash.last_user])
    /\ dash' = IdleCmd
    /\ UNCHANGED <<call, row, settings, tally, history, msgCount, adminOps, h, last, sync, setch>>

\* ------------------------------------------------------------ specification
Next ==
    \/ \E k \in Handlers, m \in Messages : OnMessage(k, m)
    \/ \E k \in Handlers, ok \in BOOLEAN : DeleteIgnored(k, ok)
    \/ \E k \in Handlers, ok \in BOOLEAN : DeleteWrong(k, ok)
    \/ \E k \in Handlers, ok \in BOOLEAN : SendNotice(k, ok)
    \/ \E k \in Handlers, ok \in BOOLEAN : DeleteNotice(k, ok)
    \/ \E k \in Handlers, ok \in BOOLEAN : AddReaction(k, ok)
    \/ \E v \in SetCountArgs : setcount(v)
    \/ resetcount
    \/ \E v \in BOOLEAN : extrememode(v)
    \/ \E v \in BOOLEAN : countconfig(v)
    \/ stats
    \/ SyncFetch
    \/ SyncWrite
    \/ SetChannelFetch(CountChannel)
    \/ SetChannelWrite(CountChannel)
    \/ guild_view
    \/ \E e \in BOOLEAN, d \in BOOLEAN : update_settings(e, d)
    \/ \E c \in {CountChannel, NoneId}, v \in {None} \cup {<<a>> : a \in SetCountArgs},
          r \in BOOLEAN, y \in BOOLEAN : update_counting(c, v, r, y)
    \/ UpdateCountingWrite

Spec == Init /\ [][Next]_vars

\* ------------------------------------------- the reconciler on its own
\* backfill_from_history applied to every history of at most MaxHist messages:
\* history is the channel's content, settings.extreme_mode the extreme
\* argument, and sync holds the returned pair next to the max_messages it
\* was called with and the number of messages its loop took.
ReconTexts ==
    { <<"1">>, <<"2">>, <<"3">>, <<"x">>, <<"-", "1">>, <<"g", "o", " ", "2">> }
ReconMessages ==
    { [author |-> u, bot |-> FALSE, text |-> t] : u \in Users, t \in ReconTexts }
    \cup { [author |-> BotUser, bot |-> TRUE, text |-> <<"3">>] }
\* the default of line 76 and a limit shorter than the histories
ScanLimits == {2, DefaultMaxMessages}

ReconInit ==
    /\ row = TRUE
    /\ st = [DefaultState EXCEPT !.channel_id = CountChannel]
    /\ settings \in {[extreme_mode |-> e, delete_wrong |-> "unset"] : e \in {"unset", "true"}}
    /\ tally = [u \in Users |-> 0]
    /\ history = <<>>
    /\ msgCount = 0
    /\ adminOps = 0
    /\ h = [k \in Handlers |-> IdleHandler]
    /\ last = IdleHandler
    /\ sync = IdleCmd
    /\ setch = IdleCmd
    /\ dash = IdleCmd
    /\ call = NoCall

\* one more message in the channel, newest first as channel.history yields them
HistoryMessage(m) ==
    /\ sync.pc = "idle"
    /\ Len(history) < MaxHist
    /\ history' = <<[id |-> Len(history) + 1, author |-> m.author, bot |-> m.bot,
                     text |-> m.text]>> \o history
    /\ UNCHANGED <<call, row, st, settings, tally, msgCount, adminOps, h, last, sync, setch, dash>>

\* counting.py lines 76-95 called on the channel as it stands
Backfill(max_messages) ==
    /\ sync.pc = "idle"
    /\ LET r == backfill_from_history(history, get_extreme_mode, max_messages)
       IN  sync' = [pc |-> "fetched", last_num |-> r[1], last_user |-> r[2],
                    max_messages |-> max_messages,
                    examined |-> Examined(Take(history, max_messages), get_extreme_mode, None)]
    /\ UNCHANGED <<call, row, st, settings, tally, history, msgCount, adminOps, h, last, setch, dash>>

ReconNext ==
    \/ \E m \in ReconMessages : HistoryMessage(m)
    \/ \E mm \in ScanLimits : Backfill(mm)

ReconSpec == ReconInit /\ [][ReconNext]_vars

\* ------------------------------------------ the pure functions on their own
\* is_milestone called on every n up to MaxMilestone and on some larger ones,
\* parse_count_message on every text of at most MaxTextLen characters and on
\* two texts with a chunk at the length limit of line 69
MilestoneInputs ==
    (-10 .. MaxMilestone)
    \cup {30000, 90000, 99999, 100000, 100001, 110000, 900000, 1000000, 50000000, 900000000,
          900000001}

TextChars == {"1", "2", " ", "x", "!", "-", "+"}
RECURSIVE TextsOfLen(_)
TextsOfLen(k) ==
    IF k = 0 THEN {<<>>}
    ELSE {Append(t, c) : t \in TextsOfLen(k - 1), c \in TextChars}
\* "x ", a chunk of k characters that parses to 7, and " 2"
LongChunkText(k) ==
    <<"x", " ">> \o [i \in 1..k |-> IF i = k THEN "7" ELSE "0"] \o <<" ", "2">>
ParseInputs ==
    UNION {TextsOfLen(k) : k \in 0..MaxTextLen}
    \cup {LongChunkText(MaxChunkLen), LongChunkText(MaxChunkLen + 1)}

\* Tokens in exponent notation, each with what it denotes: the mantissa is
\* m / 10^f and the token m / 10^f * 10^e.
Mantissas ==
    { [text |-> <<"0">>, m |-> 0, f |-> 0], [text |-> <<"1">>, m |-> 1, f |-> 0],
      [text |-> <<"2">>, m |-> 2, f |-> 0], [text |-> <<"-", "1">>, m |-> -1, f |-> 0],
      [text |-> <<"1", "0">>, m |-> 10, f |-> 0], [text |-> <<"1", ".", "0">>, m |-> 10, f |-> 1],
      [text |-> <<"1", ".", "5">>, m |-> 15, f |-> 1], [text |-> <<"0", ".", "0">>, m |-> 0, f |-> 1],
      [text |-> <<".", "5">>, m |-> 5, f |-> 1] }
Exponents ==
    { [text |-> <<mk>> \o sg \o IntToDigits(e), e |-> IF sg = <<"-">> THEN 0 - e ELSE e] :
        mk \in {"e", "E"}, sg \in {<<>>, <<"+">>, <<"-">>},
        e \in {0, 1, 2, 8, EXTREME_MAX_EXPONENT, EXTREME_MAX_EXPONENT + 1, 20, 100} }
\* Python computes with integers of any size, TLC with 32 bits: the tokens
\* called are those whose parse stays below 2^31 at every step, which leaves
\* out a nonzero mantissa with an exponent of 9 to 18 or below -18.
ExpTokens ==
    { [text |-> p[1].text \o p[2].text, m |-> p[1].m, f |-> p[1].f, e |-> p[2].e] :
        p \in {q \in Mantissas \X Exponents :
                  q[1].m = 0 \/ Abs(q[2].e) <= 8 \/ q[2].e > EXTREME_MAX_EXPONENT} }

\* the calls to make: a function and its arguments
Calls ==
    {[NoCall EXCEPT !.fn = "is_milestone", !.n = n] : n \in MilestoneInputs}
    \cup {[NoCall EXCEPT !.fn = "_try_parse_numeric_token", !.text = t.text,
                         !.arg = <<t.m, t.f, t.e>>] : t \in ExpTokens}
    \cup {[NoCall EXCEPT !.fn = "parse_count_message", !.text = t, !.extreme = e] :
              t \in ParseInputs, e \in BOOLEAN}

CallInit ==
    /\ row = FALSE
    /\ st = DefaultState
    /\ settings = [extreme_mode |-> "unset", delete_wrong |-> "unset"]
    /\ tally = [u \in Users |-> 0]
    /\ history = <<>>
    /\ msgCount = 0
    /\ adminOps = 0
    /\ h = [k \in Handlers |-> IdleHandler]
    /\ last = IdleHandler
    /\ sync = IdleCmd
    /\ setch = IdleCmd
    /\ dash = IdleCmd
    /\ call \in Calls

\* counting.py lines 57-58
CallIsMilestone ==
    /\ call.fn = "is_milestone" /\ ~call.done
    /\ call' = [call EXCEPT !.done = TRUE, !.out = is_milestone(call.n)]
    /\ UNCHANGED <<row, st, settings, tally, history, msgCount, adminOps, h, last, sync, setch,
                   dash>>

\* counting.py lines 60-74
CallParseCountMessage ==
    /\ call.fn = "parse_count_message" /\ ~call.done
    /\ call' = [call EXCEPT !.done = TRUE,
                            !.out = parse_count_message(call.text, call.extreme)]
    /\ UNCHANGED <<row, st, settings, tally, history, msgCount, adminOps, h, last, sync, setch,
                   dash>>

\* counting.py lines 24-49
CallTryParseNumericToken ==
    /\ call.fn = "_try_parse_numeric_token" /\ ~call.done
    /\ call' = [call EXCEPT !.done = TRUE, !.out = _try_parse_numeric_token(call.text)]
    /\ UNCHANGED <<row, st, settings, tally, history, msgCount, adminOps, h, last, sync, setch,
                   dash>>

CallNext ==
    \/ CallIsMilestone
    \/ CallTryParseNumericToken
    \/ CallParseCountMessage

CallSpec == CallInit /\ [][CallNext]_vars

\* ------------------------------------------- the live game on its own
\* on_message and resetcount alone, from the default state of a guild whose
\* counting channel is set: no setcount, no setcountingchannel, no resync, no
\* dashboard.  Handlers interleave as in Spec.
LiveTexts == { <<"1">>, <<"2">>, <<"3">>, <<"x">> }
LiveMessages ==
    { [author |-> u, bot |-> FALSE, channel |-> CountChannel, text |-> t] :
          u \in Users, t \in LiveTexts }

LiveInit ==
    /\ row = TRUE
    /\ st = [DefaultState EXCEPT !.channel_id = CountChannel]
    /\ settings \in {[extreme_mode |-> e, delete_wrong |-> "unset"] : e \in {"unset", "true"}}
    /\ tally = [u \in Users |-> 0]
    /\ history = <<>>
    /\ msgCount = 0
    /\ adminOps = 0
    /\ h = [k \in Handlers |-> IdleHandler]
    /\ last = IdleHandler
    /\ sync = IdleCmd
    /\ setch = IdleCmd
    /\ dash = IdleCmd
    /\ call = NoCall

LiveMessage(k, m) == on_message(k, m, MaxLiveMsgs)

LiveNext ==
    \/ \E k \in Handlers, m \in LiveMessages : LiveMessage(k, m)
    \/ \E k \in Handlers, ok \in BOOLEAN : DeleteIgnored(k, ok)
    \/ \E k \in Handlers, ok \in BOOLEAN : DeleteWrong(k, ok)
    \/ \E k \in Handlers, ok \in BOOLEAN : SendNotice(k, ok)
    \/ \E k \in Handlers, ok \in BOOLEAN : DeleteNotice(k, ok)
    \/ \E k \in Handlers, ok \in BOOLEAN : AddReaction(k, ok)
    \/ resetcount

LiveSpec == LiveInit /\ [][LiveNext]_vars

\* ------------------------------------------------------------------ claims
\* the step takes up a new message (lines 223-245) ...
Received == msgCount' = msgCount + 1
\* ... and Taken is that message's task as the step leaves it
Taken == CHOOSE r \in {last'} \cup {h'[k] : k \in Handlers} : r.id = msgCount'
\* the step in which task k resumes from its last await and returns
Returns(k) == h[k].pc # "idle" /\ h'[k].pc = "idle"
\* the task went past the channel and bot checks of lines 225-232
Handling(r) == r.outcome \notin {"None", "NotHandled"}
Rejections == {"RejectedWrongValue", "RejectedRepeatPoster"}

\* C1: a counting-channel message from a poster other than last_poster that
\* parses to last_number + 1 is Accepted, and when its handler returns the
\* stored last_number is that value and the stored last_poster is the poster.
C1_Step ==
    /\ (Received /\ Handling(Taken) /\ Taken.n = <<st.last_number + 1>>
          /\ Taken.author # st.last_user_id)
        => Taken.outcome = "Accepted"
    /\ \A k \in Handlers :
        (Returns(k) /\ h[k].outcome = "Accepted")
          => (st'.last_number = h[k].n[1] /\ st'.last_user_id = h[k].author)
C1_NextFromOtherPosterAccepted == [][C1_Step]_vars

\* a handler has returned after accepting last_number + 1 from a poster other
\* than the one of its snapshot, and the store holds its value and poster
C1_Witness ==
    /\ last.pc = "done" /\ last.outcome = "Accepted"
    /\ last.snap.last_user_id \notin {NoneId, last.author}
    /\ st.last_number = last.snap.last_number + 1
    /\ st.last_user_id = last.author

\* C2: a message that parses to a value other than last_number + 1 is
\* RejectedWrongValue against expected = last_number + 1 whoever posts it and
\* whatever extreme mode is, and when its handler returns last_number is 0 and
\* last_poster absent while high_score and high_scorer are as they were.
C2_Step ==
    /\ (Received /\ Handling(Taken) /\ Taken.n # None
          /\ Taken.n # <<st.last_number + 1>>)
        => (Taken.outcome = "RejectedWrongValue"
            /\ Taken.snap.last_number = st.last_number)
    /\ \A k \in Handlers :
        (Returns(k) /\ h[k].outcome = "RejectedWrongValue")
          => (/\ st'.last_number = 0
              /\ st'.last_user_id = NoneId
              /\ st'.high_score = st.high_score
              /\ st'.high_scorer_id = st.high_scorer_id)
C2_WrongValueRejectedAndReset == [][C2_Step]_vars

\* a wrong value was rejected in extreme mode after a count had been reached,
\* and the handler's reset is in the store next to a kept high score
C2_Witness ==
    /\ last.pc = "done" /\ last.outcome = "RejectedWrongValue" /\ last.extreme
    /\ last.snap.last_number > 0
    /\ st.last_number = 0 /\ st.last_user_id = NoneId
    /\ st.high_score > 0

\* C3: a message from last_poster that parses to last_number + 1, unless
\* extreme mode is on and the value is a milestone, is RejectedRepeatPoster,
\* and when its handler returns last_number is 0 and last_poster absent.
C3_Step ==
    /\ (Received /\ Handling(Taken) /\ Taken.n = <<st.last_number + 1>>
          /\ Taken.author = st.last_user_id
          /\ ~(get_extreme_mode /\ is_milestone(st.last_number + 1)))
        => Taken.outcome = "RejectedRepeatPoster"
    /\ \A k \in Handlers :
        (Returns(k) /\ h[k].outcome = "RejectedRepeatPoster")
          => (st'.last_number = 0 /\ st'.last_user_id = NoneId)
C3_RepeatPosterRejectedAndReset == [][C3_Step]_vars

\* outside extreme mode the poster of the last accepted number posted the next
\* one, was rejected, and the reset is in the store
C3_Witness ==
    /\ last.pc = "done" /\ last.outcome = "RejectedRepeatPoster" /\ ~last.extreme
    /\ last.snap.last_number > 0
    /\ last.snap.last_user_id = last.author
    /\ st.last_number = 0 /\ st.last_user_id = NoneId

\* C4: in extreme mode a message from last_poster that parses to
\* last_number + 1 and is a milestone is Accepted, and when its handler
\* returns the store holds that value with the same poster.
C4_Step ==
    /\ (Received /\ Handling(Taken) /\ Taken.n = <<st.last_number + 1>>
          /\ Taken.author = st.last_user_id
          /\ get_extreme_mode /\ st.last_number + 1 \in MILESTONES)
        => Taken.outcome = "Accepted"
    /\ \A k \in Handlers :
        (Returns(k) /\ h[k].outcome = "Accepted" /\ h[k].author = h[k].snap.last_user_id)
          => (st'.last_number = h[k].n[1] /\ st'.last_user_id = h[k].snap.last_user_id)
C4_MilestoneRepeatAccepted == [][C4_Step]_vars

\* the poster of 68 posted 69 in extreme mode and the store holds 69 and them
C4_Witness ==
    /\ last.pc = "done" /\ last.outcome = "Accepted" /\ last.extreme
    /\ last.snap.last_user_id = last.author
    /\ last.n = <<69>>
    /\ st.last_number = 69 /\ st.last_user_id = last.author

\* C5: high_score never decreases, whatever the operations and however their
\* handlers interleave.
C5_HighScoreNeverDecreases == [][st'.high_score >= st.high_score]_vars

\* C6: on_message is serialized per guild: no two handlers are both past
\* their read of the same last_number and both Accepted.
C6_NoDoubleAccept ==
    \A k1 \in Handlers, k2 \in Handlers :
        k1 # k2 =>
            ~(/\ h[k1].pc = "acc_react" /\ h[k2].pc = "acc_react"
              /\ h[k1].snap.last_number = h[k2].snap.last_number)

\* C7: a step in which a handler returns Accepted adds exactly 1 to its
\* poster's tally and leaves the other tallies alone; every other step
\* (rejected, ignored and unhandled messages, admin operations) leaves all
\* tallies unchanged.
C7_Step ==
    IF \E k \in Handlers : Returns(k) /\ h[k].outcome = "Accepted"
    THEN \E k \in Handlers :
            /\ Returns(k) /\ h[k].outcome = "Accepted"
            /\ tally' = [tally EXCEPT ![h[k].author] = @ + 1]
    ELSE tally' = tally
C7_TallyOncePerAccepted == [][C7_Step]_vars

\* two numbers were accepted and the tallies add up to two
C7_Witness ==
    /\ last.pc = "done" /\ last.outcome = "Accepted"
    /\ tally[last.author] >= 1
    /\ tally[1] + tally[2] = 2

\* C8: every step of the handler of a counting-channel message that does not
\* parse leaves the counting state and the tallies as they are, and the
\* handler deletes the message exactly when delete_wrong is on.
C8_Step ==
    /\ (Received /\ Handling(Taken) /\ Taken.n = None)
        => /\ row' = row /\ st' = st /\ tally' = tally
           /\ Taken.outcome = "Ignored"
           /\ Taken.pc = (IF get_delete_wrong THEN "ign_delete" ELSE "done")
    /\ \A k \in Handlers :
        (h[k].pc # "idle" /\ h[k].n = None /\ h'[k] # h[k])
          => /\ row' = row /\ st' = st /\ tally' = tally
             /\ Returns(k) /\ last'.fx = {"delete"}
C8_IgnoredChangesNothing == [][C8_Step]_vars

\* a message that is not a number was deleted from the channel while the
\* count stands where it stood
C8_Witness ==
    /\ last.pc = "done" /\ last.outcome = "Ignored" /\ last.fx = {"delete"}
    /\ ~last.failed
    /\ \A i \in 1..Len(history) : history[i].id # last.id
    /\ st.last_number > 0 /\ st = last.snap

\* C9: a side effect that fails never ends the handler before its write: a
\* handler that decided a rejection returns with the reset stored, one that
\* decided an acceptance returns with its value, poster and high score stored
\* and its poster's tally raised, whether its side effects succeeded or not.
C9_Step ==
    \A k \in Handlers :
        /\ h[k].pc = "rej_delete" => h'[k].pc \in {"rej_delete", "rej_send"}
        /\ (Returns(k) /\ h[k].outcome \in Rejections)
             => (st'.last_number = 0 /\ st'.last_user_id = NoneId /\ tally' = tally)
        /\ (Returns(k) /\ h[k].outcome = "Accepted")
             => (/\ st'.last_number = h[k].n[1]
                 /\ st'.last_user_id = h[k].author
                 /\ st'.high_score = Max(h[k].n[1], h[k].snap.high_score)
                 /\ tally'[h[k].author] = tally[h[k].author] + 1)
C9_FailedSideEffectsSwallowed == [][C9_Step]_vars

\* a handler whose side effects failed has stored its reset of a running count
C9_Witness ==
    /\ last.pc = "done" /\ last.failed /\ last.outcome \in Rejections
    /\ {"delete", "send"} \subseteq last.fx
    /\ last.snap.last_number > 0
    /\ st.last_number = 0 /\ st.last_user_id = NoneId

\* C10: a message from a bot, in a channel other than the counting channel, or
\* arriving while no counting channel is set leaves the counting state and the
\* tallies unchanged and its handler returns at once without any side effect;
\* any other message is handled.
C10_Step ==
    Received =>
        IF \/ Taken.author = BotUser
           \/ st.channel_id = NoneId
           \/ Taken.channel # st.channel_id
        THEN /\ st' = st /\ tally' = tally
             /\ Taken.outcome = "NotHandled"
             /\ Taken.pc = "done" /\ Taken.fx = {}
        ELSE Handling(Taken)
C10_OnlyCountingChannelAndUsers == [][C10_Step]_vars

\* a bot posted in the counting channel while a count was running, and the
\* count still stands
C10_Witness ==
    /\ last.pc = "done" /\ last.outcome = "NotHandled"
    /\ last.author = BotUser /\ last.channel = st.channel_id
    /\ st.last_number > 0 /\ st.last_user_id # NoneId

\* C11: when the handler of an Accepted message with value n returns, if n is
\* strictly greater than the high_score stored before it writes then
\* high_score becomes n, high_scorer becomes the poster and the marker is the
\* trophy; otherwise high_score and high_scorer stay as they were and the
\* marker is the plain acknowledgement.
C11_Step ==
    \A k \in Handlers :
        (Returns(k) /\ h[k].outcome = "Accepted") =>
            IF h[k].n[1] > st.high_score
            THEN /\ st'.high_score = h[k].n[1]
                 /\ st'.high_scorer_id = h[k].author
                 /\ "react_trophy" \in last'.fx
            ELSE /\ st'.high_score = st.high_score
                 /\ st'.high_scorer_id = st.high_scorer_id
                 /\ "react_check" \in last'.fx
C11_HighScoreUpdatedOnlyWhenBeaten == [][C11_Step]_vars

\* C12: last_number >= 0 in every reachable state, whatever live messages
\* (negative numbers among them), set-count arguments, resets, channel
\* settings and resyncs came before.
C12_LastNumberNonNegative == st.last_number >= 0

\* a message that parses to a negative number was handled, stays in the
\* channel's history, and a resync over that history is about to write
C12_Witness ==
    /\ last.pc = "done" /\ Handling(last) /\ last.n # None /\ last.n[1] < 0
    /\ \E i \in 1..Len(history) : history[i].id = last.id
    /\ sync.pc = "fetched" /\ sync.last_num = 0 /\ sync.last_user = last.author

\* the pair backfill_from_history returned and the part of the history its
\* max_messages let it scan
Result == <<sync.last_num, sync.last_user>>
Scanned == Take(history, sync.max_messages)
Value(msg) == parse_count_message(msg.text, get_extreme_mode)
\* the positions of the scanned messages that are not from a bot and parse,
\* the newest of them, and how many of them are newer than position i
Seeds == {i \in 1..Len(Scanned) : ~Scanned[i].bot /\ Value(Scanned[i]) # None}
Seed == CHOOSE i \in Seeds : \A j \in Seeds : i <= j
Rank(seeds, i) == Cardinality({j \in seeds : j < i})

\* C13: backfill_from_history returns (max(0, v), a), v and a being the parsed
\* value and the author of the newest scanned message that is not from a bot
\* and parses under the given extreme setting, and (0, absent) when the scan
\* holds no such message; for v <= 0 the number is 0 and the poster still a.
C13_ReturnsNewestParsedValue ==
    sync.pc = "fetched" =>
        IF Seeds = {} THEN Result = <<0, NoneId>>
        ELSE Result = <<Max(0, Value(Scanned[Seed])[1]), Scanned[Seed].author>>

\* behind a bot message and a message that does not parse, the newest
\* parseable message holds a negative number: 0 is returned with its poster
C13_Witness ==
    /\ sync.pc = "fetched" /\ Seeds # {} /\ Seed = 3
    /\ \E i, j \in 1..2 : Scanned[i].bot /\ ~Scanned[j].bot
    /\ Value(Scanned[Seed])[1] < 0
    /\ sync.last_num = 0 /\ sync.last_user = Scanned[Seed].author

\* position b holds the broken entry: the parseable messages newer than it
\* (seeds being the positions that parse, seed the newest) are a descending
\* run of counts v, v-1, ... and its own value is not the next
IsBreak(seeds, seed, b) ==
    /\ b \in seeds /\ b # seed
    /\ \A i \in seeds :
          i < b => /\ Value(Scanned[i])[1] = Value(Scanned[seed])[1] - Rank(seeds, i)
                   /\ Value(Scanned[i])[1] >= 1
    /\ Value(Scanned[b])[1] # Value(Scanned[seed])[1] - Rank(seeds, b)

\* C14: for a history that is a descending run v, v-1, ... newest first
\* followed by a broken entry, backfill_from_history returns v and the poster
\* of v, which is also what it returns for the history cut off before the
\* broken entry: the broken entry and all that is older do not count.
C14_RunBeforeBreakDecides ==
    sync.pc = "fetched" =>
        LET seeds == Seeds
        IN  \A b \in seeds :
                IsBreak(seeds, Seed, b) =>
                    /\ Result = <<Value(Scanned[Seed])[1], Scanned[Seed].author>>
                    /\ Result = backfill_from_history(SubSeq(history, 1, b - 1),
                                                      get_extreme_mode, sync.max_messages)

\* a run of two counts, a broken entry, and an older message behind it that
\* parses as well, all within the scan
C14_Witness ==
    /\ sync.pc = "fetched"
    /\ \E b \in Seeds : IsBreak(Seeds, Seed, b) /\ Rank(Seeds, b) = 2 /\ b + 1 \in Seeds
    /\ sync.last_num = 3

\* hist with every user's message other than the one at position seed
\* reposted by user u
Reposted(hist, seed, u) ==
    [i \in 1..Len(hist) |->
        IF hist[i].bot \/ i = seed THEN hist[i] ELSE [hist[i] EXCEPT !.author = u]]

\* C15: backfill_from_history applies no repeat-poster rule: whoever posted
\* the messages other than the seed, one poster for all of them or not, the
\* result is the same.
C15_PostersOfRunDoNotCount ==
    sync.pc = "fetched" =>
        LET seed == IF Seeds = {} THEN 0 ELSE Seed
        IN  \A u \in Users :
                Result = backfill_from_history(Reposted(history, seed, u), get_extreme_mode,
                                               sync.max_messages)

\* the two newest counts of a run were posted by the same poster, and the
\* newer one is the result
C15_Witness ==
    /\ sync.pc = "fetched" /\ Cardinality(Seeds) >= 2
    /\ \E i \in Seeds :
          /\ Rank(Seeds, i) = 1
          /\ Scanned[i].author = Scanned[Seed].author
          /\ Value(Scanned[i])[1] = Value(Scanned[Seed])[1] - 1
    /\ Result = <<Value(Scanned[Seed])[1], Scanned[Seed].author>>
    /\ sync.last_num >= 2

\* the values a set_count field of the dashboard form can hold
FormCounts == {None} \cup {<<a>> : a \in SetCountArgs}

\* what a reset leaves behind, c being the channel field of the form it came
\* with (NoneId: no such field, or the slash command)
ResetDone(c) ==
    /\ st'.last_number = 0 /\ st'.last_user_id = NoneId
    /\ st'.high_score = st.high_score /\ st'.high_scorer_id = st.high_scorer_id
    /\ (c = NoneId => st'.channel_id = st.channel_id)
    /\ settings' = settings /\ tally' = tally

\* C16: the reset operation, as slash command or as the reset field of the
\* dashboard form, sets last_number to 0 and last_poster to absent and leaves
\* high_score, high_scorer, the settings and all tallies as they were, and
\* channel_id too (unless the same form names a channel).
\* (B \/ ~A stands for A => B: the effect is looked at first, and the step is
\* matched against the operation only where the effect is missing.)
C16_Step ==
    /\ ResetDone(NoneId) \/ ~resetcount
    /\ \A c \in {CountChannel, NoneId} :
          ResetDone(c) \/ ~(\E v \in FormCounts, y \in BOOLEAN : update_counting(c, v, TRUE, y))
C16_ResetKeepsRecord == [][C16_Step]_vars

\* after an accepted number an admin operation has cleared the count, and
\* the record and the tally of that number still stand
C16_Witness ==
    /\ adminOps = 1
    /\ last.pc = "done" /\ last.outcome = "Accepted"
    /\ st.last_number = 0 /\ st.last_user_id = NoneId
    /\ st.high_score = last.n[1] /\ st.high_scorer_id = last.author
    /\ tally[last.author] >= 1

\* what set-count with argument v leaves behind
SetCountDone(v) ==
    /\ st'.last_number = Max(0, v) /\ st'.last_user_id = NoneId
    /\ st'.high_score = st.high_score /\ st'.high_scorer_id = st.high_scorer_id
    /\ \A u \in Users, e \in BOOLEAN : Validate(st', u, <<Max(0, v) + 1>>, e) = "Accepted"

\* C17: set-count with argument v, as slash command or as the set_count field
\* of the dashboard form, sets last_number to max(0, v), clears last_poster
\* and leaves high_score and high_scorer alone; afterwards max(0, v) + 1 is
\* accepted from any poster.
C17_Step ==
    \A v \in SetCountArgs :
        /\ setcount(v) => SetCountDone(v)
        /\ \A c \in {CountChannel, NoneId}, y \in BOOLEAN :
              update_counting(c, <<v>>, FALSE, y) => SetCountDone(v)
C17_SetCountSetsLastNumber == [][C17_Step]_vars

\* C18: setting the counting channel, by slash command or by the channel
\* field of the dashboard form, makes sure the state row exists, runs the
\* reconciler on the channel and stores the channel id with the reconciler's
\* last_number and last_poster.
C18_Step ==
    /\ SetChannelFetch(CountChannel) =>
          /\ row'
          /\ <<setch'.last_num, setch'.last_user>> =
                backfill_from_history(history, get_extreme_mode, DefaultMaxMessages)
    /\ SetChannelWrite(CountChannel) =>
          /\ row
          /\ st'.channel_id = CountChannel
          /\ st'.last_number = setch.last_num /\ st'.last_user_id = setch.last_user
    /\ update_counting(CountChannel, None, FALSE, FALSE) =>
          /\ row'
          /\ st'.channel_id = CountChannel
          /\ <<st'.last_number, st'.last_user_id>> =
                backfill_from_history(history, get_extreme_mode, DefaultMaxMessages)
C18_SetChannelReconciles == [][C18_Step]_vars

\* C19: is_milestone(n) is true exactly when n is one of 69, 420, 777, 1000,
\* 1337 or n = d * 10^k with d in 1..9 and k >= 4, and false for every other
\* integer (0, the negatives, 10, 100, 2000 and 9000 among them).
C19_MilestonesExactly ==
    (call.fn = "is_milestone" /\ call.done) =>
        (call.out <=> \/ call.n \in {69, 420, 777, 1000, 1337}
                      \/ \E d \in 1..9, k \in 4..8 : call.n = d * 10^k)

\* is_milestone was called on 90000 and said yes
C19_Witness == call.fn = "is_milestone" /\ call.done /\ call.n = 90000 /\ call.out = TRUE

\* the whole trimmed message taken as one token
Whole(text) == _try_parse_numeric_token(Strip(text))
\* the first of the chunks of at most 32 characters that parses, or absent
FirstChunkParsing(chunks) ==
    LET ok == {i \in 1..Len(chunks) :
                  Len(chunks[i]) <= 32 /\ _try_parse_numeric_token(chunks[i]) # None}
    IN  IF ok = {} THEN None
        ELSE _try_parse_numeric_token(chunks[CHOOSE i \in ok : \A j \in ok : i <= j])
\* text with every character that is no word character, sign, point, comma
\* or whitespace turned into a separator
Separated(text) ==
    [i \in 1..Len(text) |->
        IF text[i] \in {"1", "2", "0", "7", "x", "-", "+", " "} THEN text[i] ELSE " "]

\* C20 as stated: parse_count_message returns the whole trimmed message's
\* parse when extreme mode is off or that parse succeeds, and otherwise the
\* first whitespace-delimited chunk of the message (of at most 32
\* characters) that parses, or absent.
C20_FirstWhitespaceChunk ==
    (call.fn = "parse_count_message" /\ call.done) =>
        call.out = IF ~call.extreme \/ Whole(call.text) # None THEN Whole(call.text)
                   ELSE FirstChunkParsing(SplitWs(Strip(call.text), <<>>))

\* C20 amended: as above, the chunks being those of the message after every
\* character other than a word character, "-", "+", ".", "," or whitespace
\* has been turned into a separator.
C20_FirstChunkAfterSeparators ==
    (call.fn = "parse_count_message" /\ call.done) =>
        call.out = IF ~call.extreme \/ Whole(call.text) # None THEN Whole(call.text)
                   ELSE FirstChunkParsing(SplitWs(Separated(Strip(call.text)), <<>>))

\* in extreme mode a message that does not parse as a whole, whose first
\* chunk does not parse and is followed by one that does
C20_Witness ==
    /\ call.fn = "parse_count_message" /\ call.done /\ call.extreme
    /\ Whole(call.text) = None
    /\ call.text = <<"x", " ", "2", "!">>
    /\ call.out = <<2>>

\* C21: a token in exponent notation whose exponent is above 18 in magnitude
\* parses to absent, exact integer or not, and one whose exponent is at most
\* 18 in magnitude and that denotes an exact integer parses to that integer
\* (m / 10^f being the mantissa and e the exponent).
C21_ExponentGuard ==
    (call.fn = "_try_parse_numeric_token" /\ call.done) =>
        LET m == call.arg[1]
            f == call.arg[2]
            e == call.arg[3]
        IN  /\ Abs(e) > 18 => call.out = None
            /\ (Abs(e) <= 18 /\ (m = 0 \/ e >= f))
                  => call.out = <<m * 10^(IF m = 0 THEN 0 ELSE e - f)>>
            /\ (Abs(e) <= 18 /\ m # 0 /\ e < f /\ m % 10^(f - e) = 0)
                  => call.out = <<m \div 10^(f - e)>>

\* "1e19" denotes an exact integer and was parsed to absent
C21_Witness ==
    /\ call.fn = "_try_parse_numeric_token" /\ call.done
    /\ call.arg = <<1, 0, 19>>
    /\ call.out = None

\* C22: the value is tested before the poster: in extreme mode a message from
\* last_poster whose value is a milestone other than last_number + 1 is
\* RejectedWrongValue, and when its handler returns last_number is 0 and
\* last_poster absent.
C22_Step ==
    /\ (Received /\ Handling(Taken) /\ get_extreme_mode
          /\ Taken.author = st.last_user_id
          /\ Taken.n # None /\ Taken.n # <<st.last_number + 1>>
          /\ is_milestone(Taken.n[1]))
        => Taken.outcome = "RejectedWrongValue"
    /\ \A k \in Handlers :
        (Returns(k) /\ h[k].outcome = "RejectedWrongValue" /\ h[k].extreme
           /\ h[k].author = h[k].snap.last_user_id /\ is_milestone(h[k].n[1]))
          => (st'.last_number = 0 /\ st'.last_user_id = NoneId)
C22_WrongMilestoneFromLastPosterRejected == [][C22_Step]_vars

\* in extreme mode the poster of 1 went on with 69, a milestone, and was
\* rejected for the value; the reset is in the store
C22_Witness ==
    /\ last.pc = "done" /\ last.outcome = "RejectedWrongValue" /\ last.extreme
    /\ last.snap.last_user_id = last.author
    /\ last.n = <<69>> /\ last.snap.last_number = 1
    /\ st.last_number = 0 /\ st.last_user_id = NoneId

\* C23: synccount holds nothing between its scan and its write: messages are
\* handled in between, and the later write stands.  When the resync writes
\* after a handler, the scan's (last_number, last_poster) replaces what the
\* handler stored.
C23_Step ==
    (sync.pc = "fetched" /\ sync'.pc = "idle")
      => (st'.last_number = sync.last_num /\ st'.last_user_id = sync.last_user)
C23_ResyncWritesLast == [][C23_Step]_vars

\* a resync scanned the channel when it held 68; 69 was then posted, accepted
\* and stored by its handler, and the resync's write of 68 is still to come
C23_Witness ==
    /\ sync.pc = "fetched" /\ sync.last_num = 68
    /\ last.pc = "done" /\ last.outcome = "Accepted" /\ last.n = <<69>>
    /\ st.last_number = 69 /\ st.last_user_id = last.author
    /\ sync.last_user # last.author

\* C24: backfill_from_history returns after taking at most max_messages
\* messages from the channel, and never more than the channel holds; when it
\* stops short of both, the message it stopped on is a break: a message that
\* is not from a bot and parses, found after the seed, whose value is not the
\* next of the descending run that every parseable message before it is on.
C24_ScanBounded ==
    sync.pc = "fetched" =>
        LET e == sync.examined
            seeds == Seeds
        IN  /\ e <= sync.max_messages
            /\ e <= Len(history)
            /\ (e < sync.max_messages /\ e < Len(history)) =>
                  /\ e \in seeds /\ e # Seed
                  /\ \A i \in seeds :
                        i < e => Value(Scanned[i])[1] = Value(Scanned[Seed])[1] - Rank(seeds, i)
                  /\ Value(Scanned[e])[1] # Value(Scanned[Seed])[1] - Rank(seeds, e)

\* a scan limited to 2 messages stopped after 3 and 2 although the channel
\* goes on with 1: nothing but the limit ended it
C24_Witness ==
    /\ sync.pc = "fetched" /\ sync.max_messages = 2 /\ sync.examined = 2
    /\ Len(history) > 2
    /\ ~history[1].bot /\ Value(history[1]) = <<3>>
    /\ ~history[2].bot /\ Value(history[2]) = <<2>>
    /\ ~history[3].bot /\ Value(history[3]) = <<1>>
    /\ sync.last_num = 3

\* C25: get_state creates the guild's row on first access, with the default
\* columns; on a row that exists it changes nothing and returns the row; and
\* no operation removes the row.
C25_Step ==
    /\ row => row'
    /\ (~row /\ row') => st' = DefaultState
    /\ ~row => get_state(row, st) = [row |-> TRUE, st |-> DefaultState]
    /\ row => get_state(row, st) = [row |-> TRUE, st |-> st]
    /\ (Received /\ Taken.author \in Users) => row'
    /\ (adminOps' # adminOps /\ (sync'.pc = "fetched" \/ setch'.pc = "fetched"
                                 \/ dash'.pc = "fetched")) => row'
C25_RowCreatedOnceAndKept == [][C25_Step]_vars

\* the store started without a row; a first message made get_state insert
\* it and the second found it there, still with the default columns
C25_Witness ==
    /\ row /\ st = DefaultState
    /\ msgCount = 2 /\ last.id = 2 /\ last.author \in Users
    /\ \E m \in {history[i] : i \in 1..Len(history)} : m.id = 1 /\ ~m.bot

\* C26: when the message before it was rejected, for its value or for its
\* poster, a counting-channel message that parses to 1 is Accepted, whoever
\* posts it and whatever extreme mode is (no admin operation being involved).
C26_Step ==
    (/\ Received /\ Handling(Taken) /\ Taken.n = <<1>>
     /\ adminOps = 0
     /\ \E r \in {last} \cup {h[k] : k \in Handlers} :
            r.id = msgCount /\ r.outcome \in Rejections)
      => Taken.outcome = "Accepted"
C26_OneAcceptedAfterRejection == [][C26_Step]_vars

\* C27: once a handler has persisted an acceptance or a reset, a handler
\* that read the state earlier does not write over it from its own snapshot:
\* whenever a handler writes, the stored last_number, last_poster, high_score
\* and high_scorer are still those of its snapshot.
C27_Step ==
    \A k \in Handlers :
        (Returns(k) /\ st' # st /\ adminOps = 0)
          => /\ h[k].snap.last_number = st.last_number
             /\ h[k].snap.last_user_id = st.last_user_id
             /\ h[k].snap.high_score = st.high_score
             /\ h[k].snap.high_scorer_id = st.high_scorer_id
C27_NoLostUpdate == [][C27_Step]_vars

\* C28: from the default state, whatever live messages and admin resets
\* follow (no setcount, no setcountingchannel, no resync), high_score is at
\* least last_number in every state.
C28_HighScoreCoversCount == st.high_score >= st.last_number

\* a count of 2 was reached and stored, reset by resetcount, and 1 counted
\* again: the high score 2 stands above the running count 1
C28_Witness ==
    /\ st.last_number = 1 /\ st.high_score = 2
    /\ adminOps = 1 /\ msgCount = 3
    /\ last.pc = "done" /\ last.outcome = "Accepted" /\ last.n = <<1>>

\* the channel holds n messages and nothing else: they parse to 1..n in the
\* order they were posted, each was accepted by its handler, every handler
\* has returned, and no admin operation took place
LiveRun(n) ==
    /\ n >= 1 /\ msgCount = n /\ Len(history) = n
    /\ adminOps = 0
    /\ \A k \in Handlers : h[k].pc = "idle"
    /\ \A i \in 1..n : ~history[i].bot /\ Value(history[i]) = <<n - i + 1>>
    /\ tally[1] + tally[2] = n

\* C29: over a channel that holds nothing but a run 1..n of messages accepted
\* live from last_number = 0, backfill_from_history under the same extreme
\* setting returns the stored last_number and last_poster.
C29_ReconcilerAgreesWithLiveRun ==
    \A n \in 1..MaxLiveMsgs :
        LiveRun(n) =>
            backfill_from_history(history, get_extreme_mode, DefaultMaxMessages)
              = <<st.last_number, st.last_user_id>>

\* 1, 2 and 3 were posted and accepted in extreme mode, and the scan of the
\* channel gives 3 and its poster, as stored
C29_Witness ==
    /\ LiveRun(3) /\ get_extreme_mode
    /\ st.last_number = 3 /\ st.last_user_id = history[1].author
    /\ backfill_from_history(history, TRUE, DefaultMaxMessages) = <<3, history[1].author>>

\* the step is a setcount, a resetcount or a dashboard form without resync
SetOnly ==
    \/ \E v \in SetCountArgs : setcount(v)
    \/ resetcount
    \/ \E c \in {CountChannel, NoneId}, v \in {None} \cup {<<a>> : a \in SetCountArgs},
          r \in BOOLEAN : update_counting(c, v, r, FALSE)

\* C30: set_state updates the named columns of an existing row and nothing
\* else: while the guild has no row no write changes anything, a setcount, a
\* resetcount or a dashboard form issued then leaves the store without a row
\* and with its defaults, and on an existing row only a handler's write
\* touches high_score and high_scorer and no handler's write touches
\* channel_id.
C30_Step ==
    /\ ~row => (st = DefaultState /\ st' = st)
    /\ (~row /\ adminOps' # adminOps) => (~SetOnly \/ (row' = row /\ st' = st))
    /\ (\E k \in Handlers : Returns(k)) => st'.channel_id = st.channel_id
    /\ (\A k \in Handlers : ~Returns(k))
          => (st'.high_score = st.high_score /\ st'.high_scorer_id = st.high_scorer_id)
C30_SetStateUpdatesExistingRowOnly == [][C30_Step]_vars

\* an admin operation was issued on a store without a row, before any
\* message: there is still no row and nothing but the defaults
C30_Witness ==
    /\ ~row /\ st = DefaultState
    /\ adminOps = 1 /\ msgCount = 0
    /\ dash.pc = "idle" /\ sync.pc = "idle" /\ setch.pc = "idle"

====
